---- MODULE Spec2Model ----
(***************************************************************************)
(* config_loader (src/src/lib.rs): a TOML document is parsed into a table, *)
(* every string leaf of the form <<ENV:NAME>> / <<ENV?:NAME>> is replaced   *)
(* by the value of the environment variable NAME, and the resulting table   *)
(* is serialized and deserialized into the caller's type.                   *)
(*                                                                          *)
(* Strings are tuples of one-character strings, so that the regular         *)
(* expressions and the trim_*_matches calls are modelled on the text.       *)
(***************************************************************************)
EXTENDS Integers, Sequences, FiniteSets, TLC

VARIABLES
    env,               \* the process environment: variable name -> slot
    config_str,        \* the argument of load_config_from_str
    pc,                \* position inside load_config_from_str
    config,            \* toml::from_str(config_str), once parsed
    loaded_config,     \* what load_env_variables returned
    loaded_config_str, \* toml::to_string(&loaded_config)
    result,            \* the value load_config_from_str last returned
    lookups,           \* the env::var calls of the current load, in order
    steps,             \* the steps of the current load, in order
    args,              \* combine_errors: the errors being combined
    out                \* combine_errors: the values computed from args

vars == << env, config_str, pc, config, loaded_config, loaded_config_str,
           result, lookups, steps, args, out >>

loadVars == << config_str, pc, config, loaded_config, loaded_config_str,
               result, lookups, steps >>

(***************************************************************************)
(* Bounds of the model.                                                     *)
(***************************************************************************)
MaxDepth == 1      \* nesting depth of tables below the root table
MaxValLen == 1     \* length of an environment variable's value
MaxErrs == 2       \* length of a Multiple handed to combine_errors

(***************************************************************************)
(* Text.                                                                    *)
(***************************************************************************)
HasPrefix(s, p) == Len(s) >= Len(p) /\ SubSeq(s, 1, Len(p)) = p

HasSuffix(s, p) == Len(s) >= Len(p) /\ SubSeq(s, Len(s) - Len(p) + 1, Len(s)) = p

RECURSIVE trim_left_matches(_, _)
trim_left_matches(s, p) ==
    IF HasPrefix(s, p)
    THEN trim_left_matches(SubSeq(s, Len(p) + 1, Len(s)), p)
    ELSE s

RECURSIVE trim_right_matches(_, _)
trim_right_matches(s, p) ==
    IF HasSuffix(s, p)
    THEN trim_right_matches(SubSeq(s, 1, Len(s) - Len(p)), p)
    ELSE s

\* the character class [a-zA-Z0-9_]
NameChars ==
    { "a","b","c","d","e","f","g","h","i","j","k","l","m",
      "n","o","p","q","r","s","t","u","v","w","x","y","z",
      "A","B","C","D","E","F","G","H","I","J","K","L","M",
      "N","O","P","Q","R","S","T","U","V","W","X","Y","Z",
      "0","1","2","3","4","5","6","7","8","9","_" }

ReqOpen == << "<", "<", "E", "N", "V", ":" >>
OptOpen == << "<", "<", "E", "N", "V", "?", ":" >>
Close == << ">", ">" >>

\* a whole-text match of  ^open([a-zA-Z0-9_]*)>>$
Anchored(s, open) ==
    /\ Len(s) >= Len(open) + Len(Close)
    /\ HasPrefix(s, open)
    /\ HasSuffix(s, Close)
    /\ \A i \in (Len(open) + 1)..(Len(s) - Len(Close)) : s[i] \in NameChars

ENV_FLAG_REQ(s) == Anchored(s, ReqOpen)
ENV_FLAG_OPT(s) == Anchored(s, OptOpen)

(***************************************************************************)
(* toml::Value, Result, Option and Error.                                   *)
(***************************************************************************)
String(s) == [tag |-> "String", val |-> s]
Integer(n) == [tag |-> "Integer", val |-> n]
Array(a) == [tag |-> "Array", val |-> a]
Table(t) == [tag |-> "Table", val |-> t]

Ok(v) == [tag |-> "Ok", val |-> v]
Err(e) == [tag |-> "Err", val |-> e]
Some(v) == [tag |-> "Some", val |-> v]
None == [tag |-> "None", val |-> << >>]

EnvVarMissing(key) == [kind |-> "EnvVarMissing", arg |-> key]
EnvNotUnicode == [kind |-> "Env", arg |-> << >>]
Deserialization == [kind |-> "Deserialization", arg |-> << >>]
Multiple(errs) == [kind |-> "Multiple", arg |-> errs]

(***************************************************************************)
(* The environment.  A slot is unset, set to a string, or set to bytes      *)
(* that are not valid Unicode.  A name outside the environment's domain     *)
(* (the empty name) is never present.                                       *)
(***************************************************************************)
Unset == [tag |-> "Unset", val |-> << >>]
Raw == [tag |-> "Raw", val |-> << >>]
Set(value) == [tag |-> "Set", val |-> value]

env_var(key) ==
    IF key \notin DOMAIN env THEN Err("NotPresent")
    ELSE CASE env[key].tag = "Set" -> Ok(env[key].val)
           [] env[key].tag = "Unset" -> Err("NotPresent")
           [] env[key].tag = "Raw" -> Err("NotUnicode")

(***************************************************************************)
(* combine_errors                                                           *)
(***************************************************************************)
combine_errors_nested(e1, e2) == Multiple(<< e1, e2 >>)

combine_errors(e1, e2) ==
    CASE e1.kind = "Multiple" /\ e2.kind = "Multiple" ->
            Multiple(e1.arg \o e2.arg)
      [] e1.kind = "Multiple" /\ e2.kind # "Multiple" ->
            Multiple(Append(e1.arg, e2))
      [] e1.kind # "Multiple" /\ e2.kind = "Multiple" ->
            Multiple(Append(e2.arg, e1))
      [] OTHER ->
            Multiple(<< e1, e2 >>)

(***************************************************************************)
(* load_env_variable and load_env_variables.  Each returns the Rust result  *)
(* together with the env::var calls it made, in order.                      *)
(***************************************************************************)
\* the keys of the model's tables, in the ascending order in which the
\* BTreeMap behind toml::value::Table iterates
Keys == << "a", "b", "m" >>

SortedKeys(table) == SelectSeq(Keys, LAMBDA k : k \in DOMAIN table)

EmptyTable == << >>

Insert(m, k, v) == [x \in (DOMAIN m) \cup {k} |-> IF x = k THEN v ELSE m[x]]

resolve_required_untrimmed(s) ==
    LET r == env_var(s)
    IN  [res |-> CASE r.tag = "Ok" -> Ok(Some(String(r.val)))
                   [] r.tag = "Err" /\ r.val = "NotPresent" ->
                        Err(EnvVarMissing(s))
                   [] OTHER -> Err(EnvNotUnicode),
         lookups |-> << s >>]

\* lib.rs 94-107: the arm of a string matching ENV_FLAG_REQ
resolve_required(s) ==
    LET env_key == trim_right_matches(trim_left_matches(s, ReqOpen), Close)
        r == env_var(env_key)
    IN  [res |-> CASE r.tag = "Ok" -> Ok(Some(String(r.val)))
                   [] r.tag = "Err" /\ r.val = "NotPresent" ->
                        Err(EnvVarMissing(env_key))
                   [] OTHER -> Err(EnvNotUnicode),
         lookups |-> << env_key >>]

resolve_optional_empty(s) ==
    LET env_key == trim_right_matches(trim_left_matches(s, OptOpen), Close)
        r == env_var(env_key)
    IN  [res |-> CASE r.tag = "Ok" -> Ok(Some(String(r.val)))
                   [] r.tag = "Err" /\ r.val = "NotPresent" ->
                        Ok(Some(String(<< >>)))
                   [] OTHER -> Err(EnvNotUnicode),
         lookups |-> << env_key >>]

\* lib.rs 108-120: the arm of a string matching ENV_FLAG_OPT
resolve_optional(s) ==
    LET env_key == trim_right_matches(trim_left_matches(s, OptOpen), Close)
        r == env_var(env_key)
    IN  [res |-> CASE r.tag = "Ok" -> Ok(Some(String(r.val)))
                   [] r.tag = "Err" /\ r.val = "NotPresent" -> Ok(None)
                   [] OTHER -> Err(EnvNotUnicode),
         lookups |-> << env_key >>]

RECURSIVE load_env_variables(_), load_env_variable(_), fold(_, _, _)

resolve_table_prune(table) ==
    LET r == load_env_variables(table)
    IN  [res |-> IF r.res.tag = "Ok"
                 THEN IF DOMAIN r.res.val.val = {} THEN Ok(None)
                      ELSE Ok(Some(r.res.val))
                 ELSE r.res,
         lookups |-> r.lookups]

\* lib.rs 121-122: the arm of a table
resolve_table(table) ==
    LET r == load_env_variables(table)
    IN  [res |-> IF r.res.tag = "Ok" THEN Ok(Some(r.res.val)) ELSE r.res,
         lookups |-> r.lookups]

load_env_variable(value) ==
    CASE value.tag = "String" /\ ENV_FLAG_REQ(value.val) ->
            resolve_required(value.val)
      [] value.tag = "String" /\ ~ENV_FLAG_REQ(value.val)
                              /\ ENV_FLAG_OPT(value.val) ->
            resolve_optional(value.val)
      [] value.tag = "Table" ->
            resolve_table(value.val)
      [] OTHER ->
            [res |-> Ok(Some(value)), lookups |-> << >>]

fold_step_short_circuit(acc, k, v) ==
    IF acc.res.tag = "Err" THEN acc
    ELSE LET r == load_env_variable(v)
         IN  [res |-> CASE r.res.tag = "Ok" /\ r.res.val.tag = "Some" ->
                             Ok(Insert(acc.res.val, k, r.res.val.val))
                        [] r.res.tag = "Ok" /\ r.res.val.tag = "None" ->
                             acc.res
                        [] OTHER -> Err(r.res.val),
              lookups |-> acc.lookups \o r.lookups]

\* lib.rs 72-88: the closure folded over the fields of a table
fold_step(acc, k, v) ==
    LET r == load_env_variable(v)
    IN  [res |-> CASE r.res.tag = "Ok" /\ r.res.val.tag = "Some" ->
                        IF acc.res.tag = "Ok"
                        THEN Ok(Insert(acc.res.val, k, r.res.val.val))
                        ELSE acc.res
                   [] r.res.tag = "Ok" /\ r.res.val.tag = "None" ->
                        acc.res
                   [] OTHER ->
                        IF acc.res.tag = "Ok"
                        THEN Err(r.res.val)
                        ELSE Err(combine_errors(acc.res.val, r.res.val)),
         lookups |-> acc.lookups \o r.lookups]

fold(ks, table, acc) ==
    IF ks = << >> THEN acc
    ELSE fold(Tail(ks), table, fold_step(acc, Head(ks), table[Head(ks)]))

load_env_variables(table) ==
    LET r == fold(SortedKeys(table), table,
                  [res |-> Ok(EmptyTable), lookups |-> << >>])
    IN  [res |-> IF r.res.tag = "Ok" THEN Ok(Table(r.res.val)) ELSE r.res,
         lookups |-> r.lookups]

(***************************************************************************)
(* The documents and environments the model draws from.                     *)
(***************************************************************************)
VarA == << "A" >>
VarB == << "B" >>
VarNames == {VarA, VarB}

Values == UNION {[1..n -> {"v"}] : n \in 0..MaxValLen}

Slots == {Unset, Raw} \cup {Set(value) : value \in Values}

Envs == [VarNames -> Slots]

Req(name) == ReqOpen \o name \o Close
Opt(name) == OptOpen \o name \o Close
Lit == << "x" >>

Absent == [tag |-> "Absent", val |-> << >>]

\* the table with fields a, b, m, leaving out those that are Absent
MkTable(a, b, m) ==
    LET f == [k \in {"a", "b", "m"} |->
                 CASE k = "a" -> a [] k = "b" -> b [] k = "m" -> m]
    IN  [k \in {x \in {"a", "b", "m"} : f[x] # Absent} |-> f[k]]

LeavesA == {String(Req(VarA)), String(Opt(VarA)), String(Lit)}
LeavesB == {String(Req(VarB)), String(Opt(VarB)), Integer(1234)}

RECURSIVE NestedTables(_)
NestedTables(d) ==
    {MkTable(a, b, m) :
        a \in LeavesA \cup {Absent},
        b \in LeavesB \cup {Absent},
        m \in IF d = 0 THEN {Absent}
              ELSE {Absent} \cup {Table(t) : t \in NestedTables(d - 1)}}

\* every kind of leaf, as the value of one field
Pool ==
    { String(Req(VarA)), String(Opt(VarA)),
      String(Req(<< >>)), String(Opt(<< >>)),
      String(Lit \o Req(VarA)), String(Req(VarA) \o Lit), String(Lit),
      Integer(1234),
      Array(<< String(Req(VarA)), String(Lit) >>),
      Array(<< Table(MkTable(String(Req(VarA)), Absent, Absent)) >>) }

FlatTables ==
    {MkTable(a, b, Absent) :
        a \in Pool \cup {Absent},
        b \in LeavesB \cup {String(Lit), Absent}}

\* A document text is represented by what the TOML parser makes of it:
\* malformed, or the table it denotes.
Text(table) == [ok |-> TRUE, table |-> table]
Malformed == [ok |-> FALSE, table |-> << >>]

toml_from_str(text) ==
    IF text.ok THEN Ok(text.table) ELSE Err(Deserialization)

toml_to_string(value) == Text(value.val)

NoResult == [tag |-> "NoResult", val |-> << >>]
NoText == [ok |-> FALSE, table |-> << >>]

(***************************************************************************)
(* load_config_from_str, step by step.                                      *)
(***************************************************************************)
Idle ==
    /\ pc = "idle"
    /\ config = EmptyTable
    /\ loaded_config = NoResult
    /\ loaded_config_str = NoText
    /\ result = NoResult
    /\ lookups = << >>
    /\ steps = << >>

Init ==
    /\ env \in Envs
    /\ config_str \in {Text(t) : t \in NestedTables(MaxDepth)} \cup {Malformed}
    /\ Idle
    /\ args = << >>
    /\ out = << >>

\* the caller enters load_config_from_str
Call ==
    /\ pc = "idle"
    /\ pc' = "parse"
    /\ config' = EmptyTable
    /\ loaded_config' = NoResult
    /\ loaded_config_str' = NoText
    /\ lookups' = << >>
    /\ steps' = << >>
    /\ UNCHANGED << env, config_str, result, args, out >>

ParseAndGoOn ==
    /\ pc = "parse"
    /\ steps' = Append(steps, "parse")
    /\ LET r == toml_from_str(config_str)
       IN  /\ config' = IF r.tag = "Ok" THEN r.val ELSE EmptyTable
           /\ pc' = "overlay"
           /\ UNCHANGED result
    /\ UNCHANGED << env, config_str, loaded_config, loaded_config_str,
                    lookups, args, out >>

\* lib.rs 39: toml::from_str(config_str)?
Parse ==
    /\ pc = "parse"
    /\ steps' = Append(steps, "parse")
    /\ LET r == toml_from_str(config_str)
       IN  IF r.tag = "Err"
           THEN /\ result' = r
                /\ pc' = "done"
                /\ UNCHANGED config
           ELSE /\ config' = r.val
                /\ pc' = "overlay"
                /\ UNCHANGED result
    /\ UNCHANGED << env, config_str, loaded_config, loaded_config_str,
                    lookups, args, out >>

OverlayRemembered ==
    /\ pc = "overlay"
    /\ steps' = Append(steps, "overlay")
    /\ LET r == IF result.tag = "Ok"
                THEN [res |-> Ok(Table(result.val)), lookups |-> << >>]
                ELSE load_env_variables(config)
       IN  /\ loaded_config' = r.res
           /\ lookups' = r.lookups
           /\ IF r.res.tag = "Err"
              THEN /\ result' = r.res
                   /\ pc' = "done"
              ELSE /\ pc' = "serialize"
                   /\ UNCHANGED result
    /\ UNCHANGED << env, config_str, config, loaded_config_str, args, out >>

\* lib.rs 39: load_env_variables(...)?
Overlay ==
    /\ pc = "overlay"
    /\ steps' = Append(steps, "overlay")
    /\ LET r == load_env_variables(config)
       IN  /\ loaded_config' = r.res
           /\ lookups' = r.lookups
           /\ IF r.res.tag = "Err"
              THEN /\ result' = r.res
                   /\ pc' = "done"
              ELSE /\ pc' = "serialize"
                   /\ UNCHANGED result
    /\ UNCHANGED << env, config_str, config, loaded_config_str, args, out >>

\* lib.rs 42: toml::to_string(&loaded_config)?
Serialize ==
    /\ pc = "serialize"
    /\ steps' = Append(steps, "serialize")
    /\ loaded_config_str' = toml_to_string(loaded_config.val)
    /\ pc' = "deserialize"
    /\ UNCHANGED << env, config_str, config, loaded_config, result, lookups,
                    args, out >>

\* lib.rs 43-45: toml::from_str(&loaded_config_str)? into the caller's type,
\* which accepts the table or not
Deserialize ==
    /\ pc = "deserialize"
    /\ steps' = Append(steps, "deserialize")
    /\ \E accepted \in BOOLEAN :
          LET r == toml_from_str(loaded_config_str)
          IN  result' = IF accepted /\ r.tag = "Ok" THEN Ok(r.val)
                        ELSE Err(Deserialization)
    /\ pc' = "done"
    /\ UNCHANGED << env, config_str, config, loaded_config, loaded_config_str,
                    lookups, args, out >>

\* load_config_from_str has returned `result` to its caller
Return ==
    /\ pc = "done"
    /\ pc' = "idle"
    /\ UNCHANGED << env, config_str, config, loaded_config, loaded_config_str,
                    result, lookups, steps, args, out >>

\* one load of any document under any environment
Next ==
    \/ Call
    \/ Parse
    \/ Overlay
    \/ Serialize
    \/ Deserialize

Spec == Init /\ [][Next]_vars

(***************************************************************************)
(* Load after load of one document, the caller changing the environment     *)
(* between them, as tests::it_works_when_env_var_optional does.             *)
(***************************************************************************)
InitEnv ==
    /\ env = [name \in VarNames |-> Unset]
    /\ config_str \in {Text(t) : t \in FlatTables}
    /\ Idle
    /\ args = << >>
    /\ out = << >>

\* env::set_var(name, value)
SetVar ==
    /\ pc = "idle"
    /\ \E name \in VarNames, slot \in Slots \ {Unset} :
          /\ env[name] # slot
          /\ env' = [env EXCEPT ![name] = slot]
    /\ UNCHANGED << loadVars, args, out >>

\* env::remove_var(name)
RemoveVar ==
    /\ pc = "idle"
    /\ \E name \in VarNames :
          /\ env[name] # Unset
          /\ env' = [env EXCEPT ![name] = Unset]
    /\ UNCHANGED << loadVars, args, out >>

NextEnv ==
    \/ Call
    \/ Parse
    \/ Overlay
    \/ Serialize
    \/ Deserialize
    \/ Return
    \/ SetVar
    \/ RemoveVar

SpecEnv == InitEnv /\ [][NextEnv]_vars

(***************************************************************************)
(* What the documentation expects of a tree, computed from the tree and     *)
(* the environment without the code's matcher, fold or combine_errors.      *)
(* A placeholder is written with Req / Opt over a name; the empty name is   *)
(* never set in any environment.                                            *)
(***************************************************************************)
AllNames == VarNames \cup {<< >>}

SlotOf(name) == IF name \in VarNames THEN env[name] ELSE Unset

IsReq(v) == v.tag = "String" /\ \E n \in AllNames : v.val = Req(n)
IsOpt(v) == v.tag = "String" /\ \E n \in AllNames : v.val = Opt(n)
NameOf(v) == CHOOSE n \in AllNames : v.val = Req(n) \/ v.val = Opt(n)

RECURSIVE Failures(_), FailuresOf(_, _), Placeholders(_), PlaceholdersOf(_, _)

\* the causes the failing placeholder leaves of a table call for, in key order
Failures(table) == FailuresOf(SortedKeys(table), table)

FailuresOf(ks, table) ==
    IF ks = << >> THEN << >>
    ELSE LET v == table[Head(ks)]
             here ==
                 CASE v.tag = "Table" -> Failures(v.val)
                   [] IsReq(v) /\ SlotOf(NameOf(v)) = Unset ->
                        << EnvVarMissing(NameOf(v)) >>
                   [] (IsReq(v) \/ IsOpt(v)) /\ SlotOf(NameOf(v)) = Raw ->
                        << EnvNotUnicode >>
                   [] OTHER -> << >>
         IN  here \o FailuresOf(Tail(ks), table)

\* the variable names of the placeholder leaves of a table, in key order
Placeholders(table) == PlaceholdersOf(SortedKeys(table), table)

PlaceholdersOf(ks, table) ==
    IF ks = << >> THEN << >>
    ELSE LET v == table[Head(ks)]
             here ==
                 CASE v.tag = "Table" -> Placeholders(v.val)
                   [] IsReq(v) \/ IsOpt(v) -> << NameOf(v) >>
                   [] OTHER -> << >>
         IN  here \o PlaceholdersOf(Tail(ks), table)

Causes(e) == IF e.kind = "Multiple" THEN e.arg ELSE << e >>

Count(seq, x) == Cardinality({i \in DOMAIN seq : seq[i] = x})

SameBag(s1, s2) ==
    /\ Len(s1) = Len(s2)
    /\ \A i \in DOMAIN s1 : Count(s1, s1[i]) = Count(s2, s1[i])

\* load_env_variables has returned in the current load
OverlayDone ==
    /\ pc \in {"serialize", "deserialize", "done"}
    /\ loaded_config # NoResult

(***************************************************************************)
(* C1: the walk never short-circuits.  Once the overlay has run over a      *)
(* tree of nested tables, every placeholder leaf has been looked up, in     *)
(* order, whatever failed before it; the overlay fails exactly when some    *)
(* leaf fails, and its error then carries one cause per failing leaf, none  *)
(* dropped and none duplicated.                                             *)
(***************************************************************************)
C1_NoShortCircuit ==
    OverlayDone =>
        LET f == Failures(config)
        IN  /\ lookups = Placeholders(config)
            /\ (f = << >>) <=> (loaded_config.tag = "Ok")
            /\ loaded_config.tag = "Err" =>
                   SameBag(Causes(loaded_config.val), f)

C1_Witness ==
    /\ OverlayDone
    /\ loaded_config.tag = "Err"
    /\ "a" \in DOMAIN config /\ "b" \in DOMAIN config /\ "m" \in DOMAIN config
    /\ Failures(MkTable(config["a"], Absent, Absent)) # << >>
    /\ Len(Failures(config["m"].val)) >= 2
    /\ Len(Failures(config)) >= 4
    /\ Len(Causes(loaded_config.val)) >= 4
    /\ Len(lookups) >= 4

(***************************************************************************)
(* C7: the error of an overlay is a single cause that is no Multiple        *)
(* exactly when one leaf failed, and a Multiple of at least two causes,     *)
(* none of them a Multiple, exactly when two or more leaves failed.         *)
(***************************************************************************)
C7_ErrorShape ==
    (OverlayDone /\ loaded_config.tag = "Err") =>
        LET e == loaded_config.val
            n == Len(Failures(config))
        IN  /\ (e.kind # "Multiple") <=> (n = 1)
            /\ (e.kind = "Multiple") <=> (n >= 2)
            /\ e.kind = "Multiple" =>
                  /\ Len(e.arg) >= 2
                  /\ \A i \in DOMAIN e.arg : e.arg[i].kind # "Multiple"

C7_Witness ==
    /\ OverlayDone
    /\ loaded_config.tag = "Err"
    /\ loaded_config.val.kind = "Multiple"
    /\ Len(loaded_config.val.arg) >= 4
    /\ "m" \in DOMAIN config
    /\ Len(Failures(config["m"].val)) = 2
    /\ Len(Failures(MkTable(config["a"], config["b"], Absent))) = 2

(***************************************************************************)
(* C9: the steps of a load run in the order parse, overlay, serialize,      *)
(* deserialize; when the text does not parse, the load ends at the parse    *)
(* step with the parse error alone, and no variable has been looked up;     *)
(* when the overlay fails, the load ends at the overlay step with its       *)
(* error.                                                                   *)
(***************************************************************************)
StepOrder == << "parse", "overlay", "serialize", "deserialize" >>

C9_ParseFailureEndsLoad ==
    /\ Len(steps) <= Len(StepOrder)
    /\ steps = SubSeq(StepOrder, 1, Len(steps))
    /\ (~config_str.ok /\ steps # << >>) =>
          /\ pc \in {"done", "idle"}
          /\ steps = << "parse" >>
          /\ result = Err(Deserialization)
          /\ lookups = << >>
          /\ loaded_config = NoResult
    /\ (pc = "done" /\ loaded_config.tag = "Err") =>
          /\ steps = << "parse", "overlay" >>
          /\ result = loaded_config

C9_Witness ==
    /\ pc = "done"
    /\ ~config_str.ok
    /\ steps = << "parse" >>
    /\ result = Err(Deserialization)

(***************************************************************************)
(* C10: omission never propagates through a table.  In a successful         *)
(* overlay every table-valued field is still there, as a table, at every    *)
(* level - empty when all its fields were omitted - and a field that is     *)
(* missing from the result was a string.                                    *)
(***************************************************************************)
RECURSIVE KeepsTables(_, _)
KeepsTables(src, dst) ==
    /\ \A k \in (DOMAIN src) \ (DOMAIN dst) : src[k].tag = "String"
    /\ \A k \in DOMAIN src :
          src[k].tag = "Table" =>
              /\ k \in DOMAIN dst
              /\ dst[k].tag = "Table"
              /\ KeepsTables(src[k].val, dst[k].val)
              /\ (/\ \A j \in DOMAIN src[k].val : IsOpt(src[k].val[j])
                  /\ \A j \in DOMAIN src[k].val :
                        SlotOf(NameOf(src[k].val[j])) = Unset)
                 => dst[k] = Table(EmptyTable)

C10_TablesNeverOmitted ==
    (OverlayDone /\ loaded_config.tag = "Ok") =>
        /\ loaded_config.val.tag = "Table"
        /\ KeepsTables(config, loaded_config.val.val)

C10_Witness ==
    /\ OverlayDone
    /\ loaded_config.tag = "Ok"
    /\ "m" \in DOMAIN config
    /\ config["m"] = Table(MkTable(String(Opt(VarA)), String(Opt(VarB)), Absent))
    /\ env[VarA] = Unset /\ env[VarB] = Unset
    /\ loaded_config.val.val["m"] = Table(EmptyTable)

(***************************************************************************)
(* combine_errors on its own: three errors, each a single cause or a flat   *)
(* Multiple, combined in both groupings.                                    *)
(***************************************************************************)
Singles == {EnvVarMissing(VarA), EnvVarMissing(VarB), EnvNotUnicode}

ErrorsIn ==
    Singles \cup {Multiple(es) : es \in UNION {[1..n -> Singles] : n \in 2..MaxErrs}}

InitCombine ==
    /\ args \in ErrorsIn \X ErrorsIn \X ErrorsIn
    /\ out = << >>
    /\ env = [name \in VarNames |-> Unset]
    /\ config_str = Malformed
    /\ Idle

\* combine_errors(a, b) and combine_errors(b, c)
CombinePairs ==
    /\ Len(args) = 3
    /\ out = << >>
    /\ out' = << combine_errors(args[1], args[2]),
                 combine_errors(args[2], args[3]) >>
    /\ UNCHANGED << env, loadVars, args >>

\* combine_errors(combine_errors(a, b), c) and
\* combine_errors(a, combine_errors(b, c))
CombineTriples ==
    /\ Len(out) = 2
    /\ out' = out \o << combine_errors(out[1], args[3]),
                        combine_errors(args[1], out[2]) >>
    /\ UNCHANGED << env, loadVars, args >>

NextCombine ==
    \/ CombinePairs
    \/ CombineTriples

SpecCombine == InitCombine /\ [][NextCombine]_vars

(***************************************************************************)
(* C6: combine_errors is order-preserving - the causes of                   *)
(* combine_errors(a, b) are the causes of a followed by the causes of b -   *)
(* and associative: both groupings of a, b, c give the same cause list.     *)
(***************************************************************************)
C6_AssociativeOrderPreserving ==
    /\ Len(out) >= 2 =>
          /\ Causes(out[1]) = Causes(args[1]) \o Causes(args[2])
          /\ Causes(out[2]) = Causes(args[2]) \o Causes(args[3])
    /\ Len(out) = 4 => Causes(out[3]) = Causes(out[4])

(***************************************************************************)
(* C2: a field that is an optional placeholder on an unset variable does    *)
(* not stop the overlay, and has no entry in the resulting table; the       *)
(* other fields of the table are there, with the literal they held or the   *)
(* value of their variable.                                                 *)
(***************************************************************************)
Omitted(v) == IsOpt(v) /\ SlotOf(NameOf(v)) = Unset

C2_OptionalUnsetOmitted ==
    OverlayDone =>
        \A k \in DOMAIN config, n \in VarNames :
            (config[k] = String(Opt(n)) /\ env[n] = Unset) =>
                /\ Failures(config) = << >> => loaded_config.tag = "Ok"
                /\ loaded_config.tag = "Ok" =>
                      LET t == loaded_config.val.val
                      IN  /\ k \notin DOMAIN t
                          /\ \A j \in (DOMAIN config) \ {k} :
                                ~Omitted(config[j]) =>
                                    /\ j \in DOMAIN t
                                    /\ (IsReq(config[j]) \/ IsOpt(config[j])) =>
                                          t[j] = String(SlotOf(NameOf(config[j])).val)
                                    /\ (/\ config[j].tag \in {"String", "Integer"}
                                        /\ ~IsReq(config[j])
                                        /\ ~IsOpt(config[j])) =>
                                          t[j] = config[j]

C2_Witness ==
    /\ OverlayDone
    /\ config = MkTable(String(Req(VarA)), String(Opt(VarB)), Absent)
    /\ env[VarA] = Set(<< "v" >>)
    /\ env[VarB] = Unset
    /\ loaded_config = Ok(Table(MkTable(String(<< "v" >>), Absent, Absent)))

(***************************************************************************)
(* C3: a required or optional placeholder on a variable that is set         *)
(* resolves to the String of the variable's value, the empty string         *)
(* included, and both forms resolve alike.                                  *)
(***************************************************************************)
C3_SetVariableResolved ==
    /\ \A n \in VarNames :
          env[n].tag = "Set" =>
              /\ load_env_variable(String(Req(n))).res
                     = Ok(Some(String(env[n].val)))
              /\ load_env_variable(String(Opt(n))).res
                     = load_env_variable(String(Req(n))).res
    /\ OverlayDone =>
          \A k \in DOMAIN config, n \in VarNames :
              (/\ config[k] \in {String(Req(n)), String(Opt(n))}
               /\ env[n].tag = "Set") =>
                  /\ Failures(config) = << >> => loaded_config.tag = "Ok"
                  /\ loaded_config.tag = "Ok" =>
                        loaded_config.val.val[k] = String(env[n].val)

C3_Witness ==
    /\ OverlayDone
    /\ config = MkTable(String(Req(VarA)), String(Opt(VarB)), Absent)
    /\ env[VarA] = Set(<< >>)
    /\ env[VarB] = Set(<< "v" >>)
    /\ loaded_config =
          Ok(Table(MkTable(String(<< >>), String(<< "v" >>), Absent)))

(***************************************************************************)
(* C4: a placeholder that is an element of an array is resolved like any    *)
(* other string leaf: replaced by the variable's value when it is set, a    *)
(* missing-variable failure when it is required and unset; the other        *)
(* elements keep their place.                                               *)
(***************************************************************************)
C4_ArrayElementsResolved ==
    OverlayDone =>
        \A k \in DOMAIN config :
            config[k] = Array(<< String(Req(VarA)), String(Lit) >>) =>
                /\ (env[VarA].tag = "Set" /\ loaded_config.tag = "Ok") =>
                      loaded_config.val.val[k]
                          = Array(<< String(env[VarA].val), String(Lit) >>)
                /\ env[VarA] = Unset =>
                      /\ loaded_config.tag = "Err"
                      /\ \E i \in DOMAIN Causes(loaded_config.val) :
                            Causes(loaded_config.val)[i] = EnvVarMissing(VarA)

(***************************************************************************)
(* C5: <<ENV:>> and <<ENV?:>>, whose name is empty, match neither pattern:  *)
(* such a field stays in the table as the literal it is, with no lookup,    *)
(* no omission and no failure.                                              *)
(***************************************************************************)
C5_EmptyNameIsLiteral ==
    OverlayDone =>
        \A k \in DOMAIN config :
            config[k] \in {String(Req(<< >>)), String(Opt(<< >>))} =>
                /\ ~ENV_FLAG_REQ(config[k].val)
                /\ ~ENV_FLAG_OPT(config[k].val)
                /\ \A i \in DOMAIN lookups : lookups[i] # << >>
                /\ loaded_config.tag = "Ok" =>
                      /\ k \in DOMAIN loaded_config.val.val
                      /\ loaded_config.val.val[k] = config[k]
                /\ loaded_config.tag = "Err" =>
                      \A i \in DOMAIN Causes(loaded_config.val) :
                          Causes(loaded_config.val)[i] # EnvVarMissing(<< >>)

(***************************************************************************)
(* C8: nothing is remembered between loads.  Whenever the overlay step of   *)
(* a load is taken - whatever earlier loads returned and however the        *)
(* variables were set and removed since - its outcome is that of the        *)
(* environment as it is at that step: the value of a set variable, no       *)
(* entry for an optional placeholder on an unset variable, a failure        *)
(* naming a required variable that is unset.                                *)
(***************************************************************************)
FreshFor(lc) ==
    /\ Failures(config) = << >> => lc.tag = "Ok"
    /\ \A k \in DOMAIN config, n \in VarNames :
          /\ (config[k] = String(Req(n)) /\ env[n] = Unset) =>
                /\ lc.tag = "Err"
                /\ \E i \in DOMAIN Causes(lc.val) :
                      Causes(lc.val)[i] = EnvVarMissing(n)
          /\ (config[k] = String(Opt(n)) /\ env[n] = Unset /\ lc.tag = "Ok") =>
                k \notin DOMAIN lc.val.val
          /\ (/\ config[k] \in {String(Req(n)), String(Opt(n))}
              /\ env[n].tag = "Set"
              /\ lc.tag = "Ok") =>
                /\ k \in DOMAIN lc.val.val
                /\ lc.val.val[k] = String(env[n].val)

C8_ReadFresh == [][pc = "overlay" => FreshFor(loaded_config')]_vars

\* the second load of tests::it_works_when_env_var_optional: the first load
\* returned the value of the variable, which has been removed since
C8_Witness ==
    /\ pc = "serialize"
    /\ "b" \in DOMAIN config
    /\ config["b"] = String(Opt(VarB))
    /\ result.tag = "Ok"
    /\ "b" \in DOMAIN result.val
    /\ result.val["b"] = String(<< "v" >>)
    /\ env[VarB] = Unset
    /\ loaded_config.tag = "Ok"
    /\ "b" \notin DOMAIN loaded_config.val.val

====
